---- MODULE Spec2Model ----
(***************************************************************************)
(* A model of gemini/toolsAgent.py: the Agent class, its tool registry     *)
(* (file_tools) and the control flow of Agent.run, one action per step of  *)
(* run: the user turn, dispatch #1 and the decision, each iteration of the *)
(* tool loop, dispatch #2.  The completion backend and the filesystem are  *)
(* the environment: what a dispatch answers, whether it faults, and        *)
(* whether a local function raises are chosen nondeterministically.        *)
(***************************************************************************)
EXTENDS Naturals, Sequences, FiniteSets

(* ---------------------------------------------------------------- bounds *)
\* Number of Agent.run calls explored in one session.
MaxRuns == 2
\* Number of parts the backend emits, over all its responses in a session.
MaxModelParts == 3

(* -------------------------------------------------------- parts and turns *)
\* A part of a turn.  Every part is a record of the same shape; `kind` says
\* which of text / function_call / function_response is populated.
Text(s) ==
    [kind |-> "text", text |-> s, name |-> "", args |-> {}, result |-> ""]

FunctionCall(n, a) ==
    [kind |-> "function_call", text |-> "", name |-> n, args |-> a, result |-> ""]

\* {"function_response": {"name": n, "response": {"result": r}}}
FunctionResponse(n, r) ==
    [kind |-> "function_response", text |-> "", name |-> n, args |-> {},
     result |-> r]

\* {"role": "user", "parts": [{"text": contents}]}
UserTurn(s) == [role |-> "user", parts |-> <<Text(s)>>]

\* response.candidates[0].content
ModelTurn(parts) == [role |-> "model", parts |-> parts]

\* {"role": "user", "parts": [{"function_response": ...}]}
ResultTurn(n, r) == [role |-> "user", parts |-> <<FunctionResponse(n, r)>>]

(* ------------------------------------------------------------ the registry *)
read_file_definition ==
    [name |-> "read_file", properties |-> {"file_path"},
     required |-> {"file_path"}]

list_dir_definition ==
    [name |-> "list_dir", properties |-> {"directory_path"},
     required |-> {"directory_path"}]

write_file_definition ==
    [name |-> "write_file", properties |-> {"file_path", "contents"},
     required |-> {"file_path", "contents"}]

\* The local functions: the keyword parameters of each (none has a default,
\* none takes **kwargs), what it returns, and whether it writes a file.
read_file ==
    [params |-> {"file_path"}, returns |-> "file text", writes |-> FALSE]

write_file ==
    [params |-> {"file_path", "contents"}, returns |-> "True", writes |-> TRUE]

list_dir ==
    [params |-> {"directory_path"}, returns |-> "entries", writes |-> FALSE]

\* The dict's insertion order, as iterated by self.tools.values().
ToolOrder == <<"read_file", "write_file", "list_dir">>

file_tools ==
    [n \in {"read_file", "write_file", "list_dir"} |->
        CASE n = "read_file"  -> [definition |-> read_file_definition,
                                  function |-> read_file]
          [] n = "write_file" -> [definition |-> write_file_definition,
                                  function |-> write_file]
          [] n = "list_dir"   -> [definition |-> list_dir_definition,
                                  function |-> list_dir]]

\* file_tools as the ordered dict it is: its items, in insertion order.
ToolItems ==
    [i \in 1..Len(ToolOrder) |->
        [name |-> ToolOrder[i],
         definition |-> file_tools[ToolOrder[i]].definition,
         function |-> file_tools[ToolOrder[i]].function]]

\* Agent(model="gemini-2.5-flash", tools=file_tools, system_instruction=...)
ModelName == "gemini-2.5-flash"

SystemInstruction == "respond like Linus Torvalds"

\* system_instruction: str = None
NoInstruction == ""

(* ------------------------------------------------------------------ inputs *)
\* What the user may type.
UserInputs == {"u1", "u2"}

\* The tool-call requests the backend may emit: a fitting call of each kind
\* of tool, a call that lacks a required argument, a call with an unknown
\* extra key, and a call of a name that is not registered.
Requests ==
    { FunctionCall("list_dir", {"directory_path"}),
      FunctionCall("write_file", {"file_path", "contents"}),
      FunctionCall("write_file", {"file_path"}),
      FunctionCall("read_file", {"file_path", "encoding"}),
      FunctionCall("does_not_exist", {}) }

ModelParts == {Text("m")} \cup Requests

SeqsUpTo(S, n) == UNION {[1..k -> S] : k \in 0..n}

\* The parts of a response of the backend, of at most n parts.
Responses(n) == SeqsUpTo(ModelParts, n)

(* ------------------------------------------------------------------- state *)
VARIABLES
    contents,        \* self.contents, the conversation history
    pc,              \* where run is: idle, dispatch1, exec, dispatch2
    response,        \* run's local `response`: the parts of the last answer
    function_calls,  \* run's local `function_calls`
    idx,             \* position of the for loop in function_calls
    runs,            \* number of run calls started
    start,           \* len(self.contents) when the current run was entered
    dispatches,      \* generate_content calls issued by the current run
    invoked,         \* names of the local functions entered by this run
    written,         \* number of files written by this run
    outcome,         \* none / running / returned / raised
    returned,        \* the parts of the response run returned
    emitted,         \* parts the backend has emitted so far
    tools,           \* self.tools, the items of the dict in insertion order
    model,           \* self.model
    system_instruction,  \* self.system_instruction
    sent,            \* the requests passed to generate_content, in order
    texts,           \* the user texts passed to run, in order
    results          \* the responses run has returned, in order

vars == <<contents, pc, response, function_calls, idx, runs, start,
          dispatches, invoked, written, outcome, returned, emitted,
          tools, model, system_instruction, sent, texts, results>>

\* The fields run only reads.
settings == <<tools, model, system_instruction>>

\* function_name in self.tools
InTools(n) == \E i \in DOMAIN tools : tools[i].name = n

\* self.tools[function_name]
Lookup(n) == tools[CHOOSE i \in DOMAIN tools : tools[i].name = n]

\* function(**function_args): the call binds iff the keys are exactly the
\* function's parameters; otherwise Python raises TypeError before the body.
Binds(n, a) == a = Lookup(n).function.params

\* The declarations listed from the last registered tool to the first.
DeclarationsReversed ==
    [i \in DOMAIN tools |-> tools[Len(tools) + 1 - i].definition]

\* [tool["definition"] for tool in self.tools.values()]
Declarations == [i \in DOMAIN tools |-> tools[i].definition]

\* A request that carries the turns of the current run only.
RequestCurrentRun(history) ==
    [model |-> model,
     contents |-> SubSeq(history, start + 1, Len(history)),
     tools |-> <<[function_declarations |-> Declarations]>>,
     system_instruction |->
        IF system_instruction # NoInstruction THEN system_instruction
        ELSE NoInstruction]

\* generate_content(model=self.model, contents=history, config=config), with
\* config = one Tool of all declarations, and the system instruction when set.
Request(history) ==
    [model |-> model,
     contents |-> history,
     tools |-> <<[function_declarations |-> Declarations]>>,
     system_instruction |->
        IF system_instruction # NoInstruction THEN system_instruction
        ELSE NoInstruction]

NoResponse == <<>>

\* Agent.__init__
Init ==
    /\ contents = <<>>
    /\ pc = "idle"
    /\ response = NoResponse
    /\ function_calls = <<>>
    /\ idx = 0
    /\ runs = 0
    /\ start = 0
    /\ dispatches = 0
    /\ invoked = <<>>
    /\ written = 0
    /\ outcome = "none"
    /\ returned = NoResponse
    /\ emitted = 0
    /\ tools = ToolItems
    /\ model = ModelName
    /\ system_instruction = SystemInstruction
    /\ sent = <<>>
    /\ texts = <<>>
    /\ results = <<>>

(* ------------------------------------------------------------- the decision *)
IsCall(p) == p.kind = "function_call"

\* The decision without its function_call test: any non-empty response is
\* taken for a tool call.
has_function_call_no_test(parts) == Len(parts) > 0

\* parts and hasattr(parts[0], 'function_call') and parts[0].function_call
has_function_call(parts) == Len(parts) > 0 /\ IsCall(parts[1])

\* [part.function_call for part in parts if part.function_call]
ExtractCalls(parts) == SelectSeq(parts, IsCall)

(* ------------------------------------------------------------------ actions *)
\* run starting from a fresh history instead of appending to self.contents.
RunFresh(text) ==
    /\ pc = "idle"
    /\ runs < MaxRuns
    /\ contents' = <<UserTurn(text)>>
    /\ pc' = "dispatch1"
    /\ runs' = runs + 1
    /\ start' = 0
    /\ response' = NoResponse
    /\ function_calls' = <<>>
    /\ idx' = 0
    /\ dispatches' = 0
    /\ invoked' = <<>>
    /\ written' = 0
    /\ outcome' = "running"
    /\ returned' = NoResponse
    /\ texts' = Append(texts, text)
    /\ UNCHANGED <<emitted, settings, sent, results>>

\* run, up to the first generate_content call: the user turn is appended.
Run(text) ==
    /\ pc = "idle"
    /\ runs < MaxRuns
    /\ contents' = Append(contents, UserTurn(text))
    /\ pc' = "dispatch1"
    /\ runs' = runs + 1
    /\ start' = Len(contents)
    /\ response' = NoResponse
    /\ function_calls' = <<>>
    /\ idx' = 0
    /\ dispatches' = 0
    /\ invoked' = <<>>
    /\ written' = 0
    /\ outcome' = "running"
    /\ returned' = NoResponse
    /\ texts' = Append(texts, text)
    /\ UNCHANGED <<emitted, settings, sent, results>>

\* Dispatch #1 answers: the answer is appended and inspected.  Without a
\* function call in the first part, run returns the answer.
Dispatch1(parts) ==
    /\ pc = "dispatch1"
    /\ dispatches' = dispatches + 1
    /\ contents' = Append(contents, ModelTurn(parts))
    /\ response' = parts
    /\ IF has_function_call(parts)
       THEN /\ function_calls' = ExtractCalls(parts)
            /\ idx' = 1
            /\ pc' = IF Len(ExtractCalls(parts)) = 0 THEN "dispatch2" ELSE "exec"
            /\ UNCHANGED <<outcome, returned>>
       ELSE /\ pc' = "idle"
            /\ outcome' = "returned"
            /\ returned' = parts
            /\ UNCHANGED <<function_calls, idx>>
    /\ results' = IF has_function_call(parts) THEN results
                  ELSE Append(results, parts)
    /\ sent' = Append(sent, Request(contents))
    /\ emitted' = emitted + Len(parts)
    /\ UNCHANGED <<runs, start, invoked, written, settings, texts>>

\* Dispatch #1 faults and the user turn of the failed attempt is taken back.
Dispatch1FaultRollback ==
    /\ pc = "dispatch1"
    /\ dispatches' = dispatches + 1
    /\ sent' = Append(sent, Request(contents))
    /\ contents' = SubSeq(contents, 1, start)
    /\ pc' = "idle"
    /\ outcome' = "raised"
    /\ UNCHANGED <<response, function_calls, idx, runs, start,
                   invoked, written, returned, emitted, settings, texts,
                   results>>

\* Dispatch #1 faults: the exception leaves run.
Dispatch1Fault ==
    /\ pc = "dispatch1"
    /\ dispatches' = dispatches + 1
    /\ sent' = Append(sent, Request(contents))
    /\ pc' = "idle"
    /\ outcome' = "raised"
    /\ UNCHANGED <<contents, response, function_calls, idx, runs, start,
                   invoked, written, returned, emitted, settings, texts,
                   results>>

\* The end of one iteration of the for loop.
LoopNext ==
    /\ idx' = idx + 1
    /\ pc' = IF idx + 1 > Len(function_calls) THEN "dispatch2" ELSE "exec"

Current == function_calls[idx]

\* An iteration whose function_name is not in self.tools: nothing happens.
ToolUnknown ==
    /\ pc = "exec"
    /\ ~InTools(Current.name)
    /\ LoopNext
    /\ UNCHANGED <<contents, response, function_calls, runs, start,
                   dispatches, invoked, written, outcome, returned, emitted,
                   settings, sent, texts, results>>

\* An iteration whose arguments do not bind to the function's parameters:
\* the call raises TypeError, which leaves run.
ToolBindFault ==
    /\ pc = "exec"
    /\ InTools(Current.name)
    /\ ~Binds(Current.name, Current.args)
    /\ pc' = "idle"
    /\ outcome' = "raised"
    /\ UNCHANGED <<contents, response, function_calls, idx, runs, start,
                   dispatches, invoked, written, returned, emitted,
                   settings, sent, texts, results>>

\* An iteration whose function runs and returns: its result is appended as
\* a user turn of its own.
ToolSucceed ==
    /\ pc = "exec"
    /\ InTools(Current.name)
    /\ Binds(Current.name, Current.args)
    /\ invoked' = Append(invoked, Current.name)
    /\ written' = IF Lookup(Current.name).function.writes
                  THEN written + 1 ELSE written
    /\ contents' = Append(contents,
                     ResultTurn(Current.name,
                                Lookup(Current.name).function.returns))
    /\ LoopNext
    /\ UNCHANGED <<response, function_calls, runs, start, dispatches,
                   outcome, returned, emitted, settings, sent, texts,
                   results>>

\* An iteration whose function runs and raises (open or os.listdir fails):
\* the exception leaves run.
ToolRaise ==
    /\ pc = "exec"
    /\ InTools(Current.name)
    /\ Binds(Current.name, Current.args)
    /\ invoked' = Append(invoked, Current.name)
    /\ pc' = "idle"
    /\ outcome' = "raised"
    /\ UNCHANGED <<contents, response, function_calls, idx, runs, start,
                   dispatches, written, returned, emitted, settings, sent,
                   texts, results>>

\* Dispatch #2 followed by another round of tool handling when its answer
\* asks for tools again.
Dispatch2Loop(parts) ==
    /\ pc = "dispatch2"
    /\ dispatches' = dispatches + 1
    /\ contents' = Append(contents, ModelTurn(parts))
    /\ response' = parts
    /\ IF has_function_call(parts)
       THEN /\ function_calls' = ExtractCalls(parts)
            /\ idx' = 1
            /\ pc' = "exec"
            /\ UNCHANGED <<outcome, returned>>
       ELSE /\ pc' = "idle"
            /\ outcome' = "returned"
            /\ returned' = parts
            /\ UNCHANGED <<function_calls, idx>>
    /\ results' = IF has_function_call(parts) THEN results
                  ELSE Append(results, parts)
    /\ sent' = Append(sent, Request(contents))
    /\ emitted' = emitted + Len(parts)
    /\ UNCHANGED <<runs, start, invoked, written, settings, texts>>

\* Dispatch #2 whose answer is returned without being appended.
Dispatch2NoAppend(parts) ==
    /\ pc = "dispatch2"
    /\ dispatches' = dispatches + 1
    /\ response' = parts
    /\ pc' = "idle"
    /\ outcome' = "returned"
    /\ returned' = parts
    /\ results' = Append(results, parts)
    /\ sent' = Append(sent, Request(contents))
    /\ emitted' = emitted + Len(parts)
    /\ UNCHANGED <<contents, function_calls, idx, runs, start, invoked,
                   written, settings, texts>>

\* Dispatch #2 answers: the answer is appended and returned.
Dispatch2(parts) ==
    /\ pc = "dispatch2"
    /\ dispatches' = dispatches + 1
    /\ contents' = Append(contents, ModelTurn(parts))
    /\ response' = parts
    /\ pc' = "idle"
    /\ outcome' = "returned"
    /\ returned' = parts
    /\ results' = Append(results, parts)
    /\ sent' = Append(sent, Request(contents))
    /\ emitted' = emitted + Len(parts)
    /\ UNCHANGED <<function_calls, idx, runs, start, invoked, written,
                   settings, texts>>

\* Dispatch #2 faults: the exception leaves run.
Dispatch2Fault ==
    /\ pc = "dispatch2"
    /\ dispatches' = dispatches + 1
    /\ sent' = Append(sent, Request(contents))
    /\ pc' = "idle"
    /\ outcome' = "raised"
    /\ UNCHANGED <<contents, response, function_calls, idx, runs, start,
                   invoked, written, returned, emitted, settings, texts,
                   results>>

Next ==
    \/ \E text \in UserInputs : Run(text)
    \/ \E parts \in Responses(MaxModelParts - emitted) : Dispatch1(parts)
    \/ Dispatch1Fault
    \/ ToolUnknown
    \/ ToolBindFault
    \/ ToolSucceed
    \/ ToolRaise
    \/ \E parts \in Responses(MaxModelParts - emitted) : Dispatch2(parts)
    \/ Dispatch2Fault

Spec == Init /\ [][Next]_vars

(* ------------------------------------------------- vocabulary of the claims *)
IsPrefix(s, t) == Len(s) <= Len(t) /\ SubSeq(t, 1, Len(s)) = s

Last(s) == s[Len(s)]

\* Dispatch #1 of the current run has answered.
Answered == runs > 0 /\ Len(contents) >= start + 2

\* The parts of the first response of the current run.
FirstResponse == contents[start + 2].parts

\* The tool-call requests of the first response, in emission order.
FirstRequests == ExtractCalls(FirstResponse)

\* The current run went into tool handling.
ToolHandling == function_calls # <<>>

IsResult(p) == p.kind = "function_response"

RECURSIVE Flatten(_)
Flatten(turns) ==
    IF turns = <<>> THEN <<>>
    ELSE Head(turns).parts \o Flatten(Tail(turns))

\* The result parts the history holds after the first response of the run.
ResultsSince ==
    SelectSeq(Flatten(SubSeq(contents, start + 3, Len(contents))), IsResult)

Names(parts) == [i \in 1..Len(parts) |-> parts[i].name]

\* A result is an error payload when it is not the value a function returns.
IsErrorPayload(r) ==
    r \notin {file_tools[n].function.returns : n \in DOMAIN file_tools}

\* The arguments fit the tool's parameter schema.
FitsSchema(n, a) ==
    /\ file_tools[n].definition.required \subseteq a
    /\ a \subseteq file_tools[n].definition.properties

(* ------------------------------------------------------------------ claims *)
\* C1: over any sequence of run calls, faulting ones included, the history
\* only grows: each step leaves the old history a prefix of the new one.
AppendOnlyLaw == [][IsPrefix(contents, contents')]_vars

\* C1 witness: a second run has ended in a fault and the turns of the first
\* run and those appended before the fault are all in the history.
AppendOnlyWitness ==
    /\ runs = MaxRuns
    /\ outcome = "raised"
    /\ start >= 2
    /\ Len(contents) >= start + 3

\* C2: when dispatch #2 is about to be issued, the history holds exactly one
\* result per tool-call request of the first response, with the same names in
\* the same order.
RequestResultMatching ==
    pc = "dispatch2" => Names(ResultsSince) = Names(FirstRequests)

\* C3: when dispatch #2 is about to be issued, every request of a name that
\* is not registered has a result of that name carrying an error payload.
UnknownToolAnswered ==
    pc = "dispatch2" =>
        \A i \in 1..Len(function_calls) :
            ~InTools(function_calls[i].name) =>
                \E j \in 1..Len(ResultsSince) :
                    /\ ResultsSince[j].name = function_calls[i].name
                    /\ IsErrorPayload(ResultsSince[j].result)

\* C4: a step that invokes the local function of a requested tool never ends
\* the run with an exception; it appends a result for the request.
ToolFailureInBand ==
    [][(pc = "exec" /\ InTools(Current.name)
            /\ Binds(Current.name, Current.args))
        => /\ outcome' = "running"
           /\ Len(contents') = Len(contents) + 1
           /\ Names(SelectSeq(Last(contents').parts, IsResult))
                = <<Current.name>>]_vars

\* C5: a step that handles a request whose arguments do not fit the schema
\* invokes no function, writes no file, appends an error-payload result for
\* the request and does not end the run.
ArgumentValidation ==
    [][(pc = "exec" /\ InTools(Current.name)
            /\ ~FitsSchema(Current.name, Current.args))
        => /\ invoked' = invoked
           /\ written' = written
           /\ outcome' = "running"
           /\ Len(contents') = Len(contents) + 1
           /\ \E j \in 1..Len(Last(contents').parts) :
                 /\ IsResult(Last(contents').parts[j])
                 /\ Last(contents').parts[j].name = Current.name
                 /\ IsErrorPayload(Last(contents').parts[j].result)]_vars

\* C6: the run goes into tool handling if and only if some part of the first
\* response, at any position, is a tool-call request.
DecisionRule ==
    Answered => (ToolHandling <=> FirstRequests # <<>>)

\* C7: once a first response without any tool-call request has arrived, the
\* run is over: it has returned that response after one dispatch, has invoked
\* no function, and has appended the user turn and the model turn only.
NoToolCallPath ==
    (Answered /\ FirstRequests = <<>>) =>
        /\ pc = "idle"
        /\ outcome = "returned"
        /\ returned = FirstResponse
        /\ dispatches = 1
        /\ invoked = <<>>
        /\ written = 0
        /\ Len(contents) = start + 2
        /\ contents[start + 1].role = "user"
        /\ contents[start + 2] = ModelTurn(returned)

\* C7 witness: a later run of a session returned a text-only first response.
NoToolCallWitness ==
    /\ runs = MaxRuns
    /\ start >= 2
    /\ outcome = "returned"
    /\ Answered
    /\ FirstResponse = <<Text("m")>>

\* C8: a run that returned, and whose first response contains one tool-call
\* request, for a registered tool with fitting arguments, has issued two
\* dispatches, returned the second response, and appended four turns: user
\* input, model tool-call, tool result in a user turn, final model answer.
ToolCallPathEndToEnd ==
    (/\ Answered
     /\ outcome = "returned"
     /\ Len(FirstRequests) = 1
     /\ InTools(FirstRequests[1].name)
     /\ Binds(FirstRequests[1].name, FirstRequests[1].args))
    => /\ dispatches = 2
       /\ Len(contents) = start + 4
       /\ contents[start + 1].role = "user"
       /\ contents[start + 2].role = "model"
       /\ contents[start + 3].role = "user"
       /\ Names(SelectSeq(contents[start + 3].parts, IsResult))
            = Names(FirstRequests)
       /\ contents[start + 4] = ModelTurn(returned)

\* C9: a run that went into tool handling and returned has appended exactly
\* four turns, the third being the one user turn that holds every result.
SingleResultTurn ==
    (ToolHandling /\ outcome = "returned") =>
        /\ Len(contents) = start + 4
        /\ contents[start + 3].role = "user"
        /\ Len(SelectSeq(contents[start + 3].parts, IsResult))
             = Len(FirstRequests)

\* C10: a run issues at most two dispatches and invokes at most one function
\* per request of the first response; the step that receives the second
\* response invokes nothing, appends that response only, and returns it, even
\* when it contains tool-call requests.
BoundedRounds ==
    /\ [](dispatches <= 2 /\ Len(invoked) <= Len(function_calls))
    /\ [][pc = "dispatch2" =>
            /\ pc' = "idle"
            /\ invoked' = invoked
            /\ written' = written
            /\ function_calls' = function_calls
            /\ (outcome' = "returned" =>
                    /\ contents' = Append(contents, ModelTurn(returned'))
                    /\ response' = returned')
            /\ (outcome' # "returned" => contents' = contents)]_vars

\* C10 witness: a run returned a second response that requests a registered
\* tool with fitting arguments.
BoundedRoundsWitness ==
    /\ outcome = "returned"
    /\ dispatches = 2
    /\ invoked # <<>>
    /\ has_function_call(returned)
    /\ InTools(returned[1].name)
    /\ Binds(returned[1].name, returned[1].args)

\* C11: a fault of either dispatch ends the run at once, without a second
\* attempt, and leaves the history as it was when the dispatch was issued:
\* after dispatch #1 the earlier turns and the user turn; after dispatch #2
\* also the model's tool-call turn and one result per invoked function.  The
\* next run appends its user turn to that history.
NoRollbackOnDispatchFault ==
    [][/\ (pc = "dispatch1" /\ outcome' = "raised") =>
            /\ contents' = contents
            /\ Len(contents) = start + 1
            /\ Last(contents) = UserTurn(Last(texts))
            /\ pc' = "idle"
            /\ dispatches' = 1
            /\ Len(sent') = Len(sent) + 1
       /\ (pc = "dispatch2" /\ outcome' = "raised") =>
            /\ contents' = contents
            /\ contents[start + 1] = UserTurn(Last(texts))
            /\ contents[start + 2] = ModelTurn(response)
            /\ Len(contents) = start + 2 + Len(invoked)
            /\ Names(ResultsSince) = invoked
            /\ pc' = "idle"
            /\ dispatches' = 2
            /\ Len(sent') = Len(sent) + 1
       /\ (pc = "idle" /\ pc' = "dispatch1") =>
            /\ contents' = Append(contents, UserTurn(Last(texts')))
            /\ start' = Len(contents)]_vars

\* C11 witness: the first run faulted in dispatch #1 and left its user turn;
\* the second run, started on top of it, faulted in dispatch #2 after a tool
\* had run.
NoRollbackWitness ==
    /\ runs = 2
    /\ start = 1
    /\ outcome = "raised"
    /\ dispatches = 2
    /\ invoked # <<>>
    /\ Len(contents) = start + 3

\* The i-th request of the current run.
RunRequest(i) == sent[Len(sent) - dispatches + i]

\* C12: each dispatch is sent the entire history of that moment, in order.
\* So the first request of a run holds every turn of the earlier runs and then
\* the new user turn, the second request holds in addition the model's
\* tool-call turn and the results of the run, and every request extends the
\* one before it.
FullHistoryOnDispatch ==
    /\ [][Len(sent') > Len(sent) =>
            /\ sent' = Append(sent, Last(sent'))
            /\ Last(sent').contents = contents]_vars
    /\ [](/\ dispatches <= Len(sent)
          /\ \A j \in 1..Len(sent) : IsPrefix(sent[j].contents, contents)
          /\ \A j \in 1..(Len(sent) - 1) :
                IsPrefix(sent[j].contents, sent[j + 1].contents)
          /\ dispatches >= 1 =>
                /\ Len(RunRequest(1).contents) = start + 1
                /\ Last(RunRequest(1).contents) = UserTurn(Last(texts))
          /\ dispatches >= 2 =>
                /\ Len(RunRequest(2).contents) = start + 2 + Len(invoked)
                /\ RunRequest(2).contents[start + 1] = UserTurn(Last(texts))
                /\ RunRequest(2).contents[start + 2] = ModelTurn(FirstResponse)
                /\ Names(SelectSeq(Flatten(SubSeq(RunRequest(2).contents,
                                                  start + 3,
                                                  start + 2 + Len(invoked))),
                                   IsResult)) = invoked)

\* C12 witness: the second run of a session has issued its dispatch #2 after
\* a tool ran, on top of the turns of the first run.
FullHistoryWitness ==
    /\ runs = 2
    /\ start >= 2
    /\ dispatches = 2
    /\ invoked # <<>>
    /\ Len(sent) >= 3

\* The request names a registered tool.
IsRegistered(p) == InTools(p.name)

\* C13: functions are invoked one at a time, only between the answer of
\* dispatch #1 and the issue of dispatch #2; and once dispatch #2 is issued or
\* the run has returned, the functions invoked are those of the registered
\* tools the first response requested, each once, in emission order.
ExecutionOrder ==
    /\ [][(invoked' # invoked /\ invoked' # <<>>) =>
            /\ pc = "exec"
            /\ dispatches = 1
            /\ dispatches' = 1
            /\ Len(invoked') = Len(invoked) + 1
            /\ SubSeq(invoked', 1, Len(invoked)) = invoked]_vars
    /\ []((Answered /\ (pc = "dispatch2" \/ outcome = "returned")) =>
            invoked = Names(SelectSeq(FirstRequests, IsRegistered)))

\* The declarations of file_tools, in its insertion order.
RegisteredDeclarations ==
    [i \in 1..Len(ToolOrder) |-> file_tools[ToolOrder[i]].definition]

\* C14: no step changes self.tools, self.model or self.system_instruction;
\* every request of the session carries the declarations of the registry in
\* insertion order, the model name and the system instruction the agent was
\* built with; and every registered name resolves to the function it was
\* registered with.
ConstantConfiguration ==
    /\ [][UNCHANGED settings]_vars
    /\ [](/\ \A j \in 1..Len(sent) :
                /\ sent[j].tools =
                      <<[function_declarations |-> RegisteredDeclarations]>>
                /\ sent[j].system_instruction = SystemInstruction
                /\ sent[j].model = ModelName
          /\ \A i, j \in 1..Len(sent) :
                /\ sent[i].tools = sent[j].tools
                /\ sent[i].system_instruction = sent[j].system_instruction
          /\ \A n \in DOMAIN file_tools :
                /\ InTools(n)
                /\ Lookup(n).function = file_tools[n].function
                /\ Lookup(n).definition = file_tools[n].definition)

\* C14 witness: two runs have each gone through tool handling and both of
\* their dispatches.
ConstantConfigurationWitness ==
    /\ runs = 2
    /\ Len(sent) = 4
    /\ dispatches = 2
    /\ invoked # <<>>
    /\ outcome = "returned"

\* C15: whenever a dispatch is about to be issued, the last turn of the
\* history is a user-role turn: the user's text before dispatch #1, a tool
\* result before dispatch #2.
DispatchAfterUserTurn ==
    /\ pc = "dispatch1" =>
        /\ Last(contents).role = "user"
        /\ Last(contents) = UserTurn(Last(texts))
    /\ pc = "dispatch2" =>
        /\ Last(contents).role = "user"
        /\ \E j \in 1..Len(Last(contents).parts) :
              IsResult(Last(contents).parts[j])

\* C16: once run has returned, and until the next call, the last turn of the
\* history is a model turn and is the content of the response returned.
ReturnedIsLastTurn ==
    outcome = "returned" =>
        /\ pc = "idle"
        /\ Len(contents) >= start + 2
        /\ Last(contents).role = "model"
        /\ Last(contents) = ModelTurn(returned)
        /\ returned = response
        /\ Last(results) = returned

\* C16 witness: a first run returned its first response, a second run
\* returned the response of its dispatch #2.
ReturnedIsLastTurnWitness ==
    /\ runs = 2
    /\ start = 2
    /\ outcome = "returned"
    /\ dispatches = 2
    /\ Len(results) = 2

(* ------------------------------------------ the Agent of gemini/geminiTest.py *)
\* generate_content(model=self.model, contents=history): no config at all.
SimpleRequest(history) ==
    [model |-> model,
     contents |-> history,
     tools |-> <<>>,
     system_instruction |-> NoInstruction]

\* Agent.__init__ of geminiTest.py: a model name and an empty history.
SimpleInit ==
    /\ contents = <<>>
    /\ pc = "idle"
    /\ response = NoResponse
    /\ function_calls = <<>>
    /\ idx = 0
    /\ runs = 0
    /\ start = 0
    /\ dispatches = 0
    /\ invoked = <<>>
    /\ written = 0
    /\ outcome = "none"
    /\ returned = NoResponse
    /\ emitted = 0
    /\ tools = <<>>
    /\ model = ModelName
    /\ system_instruction = NoInstruction
    /\ sent = <<>>
    /\ texts = <<>>
    /\ results = <<>>

\* run, up to the generate_content call: the user turn is appended.
SimpleRun(text) ==
    /\ pc = "idle"
    /\ runs < MaxRuns
    /\ contents' = Append(contents, UserTurn(text))
    /\ pc' = "dispatch1"
    /\ runs' = runs + 1
    /\ start' = Len(contents)
    /\ response' = NoResponse
    /\ dispatches' = 0
    /\ outcome' = "running"
    /\ returned' = NoResponse
    /\ texts' = Append(texts, text)
    /\ UNCHANGED <<function_calls, idx, invoked, written, emitted, settings,
                   sent, results>>

\* The dispatch answers and the answer is returned without being appended.
SimpleDispatchNoAppend(parts) ==
    /\ pc = "dispatch1"
    /\ dispatches' = dispatches + 1
    /\ sent' = Append(sent, SimpleRequest(contents))
    /\ response' = parts
    /\ pc' = "idle"
    /\ outcome' = "returned"
    /\ returned' = parts
    /\ results' = Append(results, parts)
    /\ emitted' = emitted + Len(parts)
    /\ UNCHANGED <<contents, function_calls, idx, runs, start, invoked,
                   written, settings, texts>>

\* The dispatch answers: the answer is appended and returned, whatever its
\* parts are.
SimpleDispatch(parts) ==
    /\ pc = "dispatch1"
    /\ dispatches' = dispatches + 1
    /\ sent' = Append(sent, SimpleRequest(contents))
    /\ contents' = Append(contents, ModelTurn(parts))
    /\ response' = parts
    /\ pc' = "idle"
    /\ outcome' = "returned"
    /\ returned' = parts
    /\ results' = Append(results, parts)
    /\ emitted' = emitted + Len(parts)
    /\ UNCHANGED <<function_calls, idx, runs, start, invoked, written,
                   settings, texts>>

\* The dispatch faults: the exception leaves run.
SimpleDispatchFault ==
    /\ pc = "dispatch1"
    /\ dispatches' = dispatches + 1
    /\ sent' = Append(sent, SimpleRequest(contents))
    /\ pc' = "idle"
    /\ outcome' = "raised"
    /\ UNCHANGED <<contents, response, function_calls, idx, runs, start,
                   invoked, written, returned, emitted, settings, texts,
                   results>>

SimpleNext ==
    \/ \E text \in UserInputs : SimpleRun(text)
    \/ \E parts \in Responses(MaxModelParts - emitted) : SimpleDispatch(parts)
    \/ SimpleDispatchFault

SimpleSpec == SimpleInit /\ [][SimpleNext]_vars

\* C17: for the Agent of geminiTest.py, when each of the k runs made so far
\* has returned, the history holds exactly 2k turns, user and model in turn,
\* the i-th run's user text at position 2i-1 and its response at position 2i.
AlternatingHistory ==
    (pc = "idle" /\ Len(results) = runs) =>
        /\ Len(contents) = 2 * runs
        /\ \A i \in 1..runs :
              /\ contents[2 * i - 1].role = "user"
              /\ contents[2 * i - 1] = UserTurn(texts[i])
              /\ contents[2 * i].role = "model"
              /\ contents[2 * i] = ModelTurn(results[i])

\* C17 witness: two runs with different texts have returned different
\* responses.
AlternatingHistoryWitness ==
    /\ runs = 2
    /\ pc = "idle"
    /\ Len(results) = 2
    /\ texts[1] # texts[2]
    /\ results[1] # results[2]

====
